---- MODULE Spec2Model ----
(***************************************************************************)
(* Model of euler_solver: the expression compiler (parse_function and its  *)
(* safe_wrapper), the fixed-step integrators (euler_method and             *)
(* improved_euler_method), the time-bounded exact-solution search          *)
(* (solve_exact_ode), the orchestration of one run (run_simulation), and   *)
(* two exact-solution searches made concurrently in one process.           *)
(*                                                                         *)
(* Numbers.  A Python float is modelled as a fixed-point number: the       *)
(* integer v stands for v / Scale.  Sums are rounded to MantBits           *)
(* significant bits, half to even, as a double rounds to 53: below         *)
(* 2^MantBits they are exact, above it a small term is absorbed by a large *)
(* one.  Products and quotients are rounded down to the grid.  The inputs  *)
(* of the integrators are whole numbers, so h / 2.0 is exact when Scale is *)
(* even.                                                                   *)
(***************************************************************************)
EXTENDS Integers, Sequences, FiniteSets, TLC

\* ------------------------------------------------------------- bounds
\* Resolution of the modelled floats: v stands for v / Scale.
Scale == 2
\* Largest numeric literal of the expression texts.
MaxNum == 2
\* Largest argument (in whole units) math.exp accepts before OverflowError;
\* stands for the 709.78 of an IEEE double.
ExpMaxArg == 5
\* Input ranges of the integrators, in whole units.
MaxX0 == 1
MaxY0 == 1
MaxH == 2
MaxXEnd == 4
MaxIter == 3
\* Significant bits of a float; stands for the 53 of an IEEE double.
MantBits == 5
\* Evaluation grid of the compiled evaluator, in whole units: -MaxArg..MaxArg,
\* and one argument beyond the range of math.exp.
MaxArg == 1

\* ------------------------------------------------------------- floats
Abs(v) == IF v < 0 THEN -v ELSE v

\* floor(a / b) for b # 0
FloorDiv(a, b) == IF b > 0 THEN a \div b ELSE (-a) \div (-b)

Whole(n) == n * Scale

\* The spacing of the floats around a >= 0: the least power of two q, from q
\* on, with a < 2^MantBits * q.
RECURSIVE Ulp(_, _)
Ulp(a, q) == IF a < (2 ^ MantBits) * q THEN q ELSE Ulp(a, 2 * q)

\* a >= 0 rounded to a multiple of q, half to even.
RoundTo(a, q) ==
    LET lo == (a \div q) * q
        r == a - lo
    IN IF 2 * r < q THEN lo
       ELSE IF 2 * r > q THEN lo + q
       ELSE IF (lo \div q) % 2 = 0 THEN lo ELSE lo + q

\* The float nearest to v.
Fl(v) == IF v < 0 THEN -RoundTo(-v, Ulp(-v, 1)) ELSE RoundTo(v, Ulp(v, 1))

FAdd(a, b) == Fl(a + b)

FSub(a, b) == Fl(a - b)

FMul(a, b) == FloorDiv(a * b, Scale)

\* a / b for b # 0 (b = 0 is ZeroDivisionError, raised by the caller of FDiv)
FDiv(a, b) == FloorDiv(a * Scale, b)

\* math.sqrt on v >= 0: the largest grid value whose square is at most v
FSqrt(v) == CHOOSE r \in 0..(v + Scale) : r * r <= v * Scale /\ (r + 1) * (r + 1) > v * Scale

\* e^w for a whole number w >= 0, rounded down to the grid (e ~ 2718/1000)
RECURSIVE ExpWhole(_)
ExpWhole(w) == IF w = 0 THEN Scale ELSE (ExpWhole(w - 1) * 2718) \div 1000

\* math.exp on v <= Whole(ExpMaxArg): exact at whole arguments, interpolated
\* between them; e^v for v < 0 as 1 / e^-v
FExp(v) ==
    IF v >= 0
    THEN LET w == v \div Scale
             r == v % Scale
             lo == ExpWhole(w)
             hi == ExpWhole(w + 1)
         IN lo + ((hi - lo) * r) \div Scale
    ELSE LET w == (-v) \div Scale
             r == (-v) % Scale
             lo == ExpWhole(w)
             hi == ExpWhole(w + 1)
         IN FDiv(Scale, lo + ((hi - lo) * r) \div Scale)

\* ------------------------------------------------------------- expressions
\* Expression text, as the token tree the parser reads.
TNum(n) == <<"num", n>>
TName(s) == <<"name", s>>
TCall(fn, a) == <<"call", fn, a>>
TOp(o, a, b) == <<"op", o, a, b>>
TBad == <<"bad">>

\* Symbolic expression, as sympify returns it.
Num(n) == <<"Num", n>>
Sym(s) == <<"Sym", s>>
Fn(fn, a) == <<"Fn", fn, a>>
Bin(o, a, b) == <<"Bin", o, a, b>>
NoExpr == <<"None">>

\* The names the texts of the model are built from.
VarNames == {"x", "y", "z"}
FnNames == {"sqrt", "exp", "Abs"}
OpNames == {"+", "-", "*", "/"}

TAtoms == {TNum(n) : n \in 1..MaxNum} \cup {TName(s) : s \in VarNames}

Texts ==
    TAtoms
    \cup {TCall(fn, a) : fn \in FnNames, a \in TAtoms}
    \cup {TOp(o, a, b) : o \in OpNames, a \in TAtoms, b \in TAtoms}
    \cup {TBad}

\* parse_function's allowed_locals: the names it binds itself.
AllowedLocals == {"x", "y", "sin", "cos", "tan", "exp", "log", "sqrt", "pi", "e"}

\* Names sympify resolves from SymPy's own namespace when locals do not bind
\* them (those the texts of the model can use).
SympyGlobals == {"Abs", "sin", "cos", "tan", "exp", "log", "sqrt", "pi"}

\* sympify's automatic evaluation of an operator applied to two parsed atoms:
\* numbers are folded, s - s is 0 and s / s is 1 (the symbol disappears),
\* 1 * s and s / 1 are s.  Numbers are kept as a quotient Bin("/", n, m) when
\* the division is not whole.
AutoEval(o, a, b) ==
    LET an == a[1] = "Num"
        bn == b[1] = "Num"
    IN CASE o = "+" /\ an /\ bn -> Num(a[2] + b[2])
         [] o = "-" /\ an /\ bn -> Num(a[2] - b[2])
         [] o = "*" /\ an /\ bn -> Num(a[2] * b[2])
         [] o = "/" /\ an /\ bn /\ a[2] % b[2] = 0 -> Num(a[2] \div b[2])
         [] o = "-" /\ ~an /\ a = b -> Num(0)
         [] o = "/" /\ ~an /\ a = b -> Num(1)
         [] o = "*" /\ an /\ ~bn /\ a[2] = 1 -> b
         [] o = "*" /\ bn /\ ~an /\ b[2] = 1 -> a
         [] o = "/" /\ bn /\ ~an /\ b[2] = 1 -> a
         [] OTHER -> Bin(o, a, b)

\* sympify(text, locals=...): a name bound by locals or by SymPy's namespace
\* is that object (pi and e are constants), any other name becomes a new
\* Symbol; a function call is kept, and folded when its argument is a number
\* the function is exact at.  Unparseable text is a SympifyError.
RECURSIVE SympifyTree(_, _)
SympifyTree(t, locals) ==
    CASE t[1] = "num" -> Num(t[2])
      [] t[1] = "name" ->
            IF t[2] \in {"pi", "e"} /\ t[2] \in (locals \cup SympyGlobals)
            THEN <<"Const", t[2]>>
            ELSE Sym(t[2])
      [] t[1] = "call" ->
            LET a == SympifyTree(t[3], locals)
            IN IF a[1] = "Num" /\ t[2] = "Abs" THEN Num(Abs(a[2]))
               ELSE IF a[1] = "Num" /\ t[2] = "sqrt" /\ a[2] >= 0 /\ (\E r \in 0..a[2] : r * r = a[2])
                    THEN Num(CHOOSE r \in 0..a[2] : r * r = a[2])
               ELSE IF a = Num(0) /\ t[2] = "exp" THEN Num(1)
               ELSE Fn(t[2], a)
      [] t[1] = "op" -> AutoEval(t[2], SympifyTree(t[3], locals), SympifyTree(t[4], locals))

Sympify(t, locals) ==
    IF t = TBad
    THEN [ok |-> FALSE, expr |-> NoExpr]
    ELSE [ok |-> TRUE, expr |-> SympifyTree(t, locals)]

\* expr.free_symbols
RECURSIVE FreeSymbols(_)
FreeSymbols(e) ==
    CASE e[1] = "Sym" -> {e[2]}
      [] e[1] = "Fn" -> FreeSymbols(e[3])
      [] e[1] = "Bin" -> FreeSymbols(e[3]) \cup FreeSymbols(e[4])
      [] OTHER -> {}

\* ------------------------------------------------------------- evaluation
\* Outcome of running code: a value or a raised exception.
Val(v) == [t |-> "real", v |-> v, e |-> ""]
Exc(name) == [t |-> "exc", v |-> 0, e |-> name]

PiApprox == (3141 * Scale) \div 1000
EApprox == (2718 * Scale) \div 1000

\* The function lambdify(..., modules='math') builds, called at (vx, vy):
\* operands left to right, the first exception wins; / by zero is
\* ZeroDivisionError, math.sqrt of a negative is ValueError, math.exp beyond
\* its range is OverflowError.
RECURSIVE RawEval(_, _, _)
RawEval(e, vx, vy) ==
    CASE e[1] = "Num" -> Val(Whole(e[2]))
      [] e[1] = "Const" -> Val(IF e[2] = "pi" THEN PiApprox ELSE EApprox)
      [] e[1] = "Sym" -> Val(IF e[2] = "x" THEN vx ELSE vy)
      [] e[1] = "Fn" ->
            LET a == RawEval(e[3], vx, vy)
            IN IF a.t = "exc" THEN a
               ELSE CASE e[2] = "sqrt" -> IF a.v < 0 THEN Exc("ValueError") ELSE Val(FSqrt(a.v))
                      [] e[2] = "exp" -> IF a.v > Whole(ExpMaxArg) THEN Exc("OverflowError") ELSE Val(FExp(a.v))
                      [] e[2] = "Abs" -> Val(Abs(a.v))
                      [] OTHER -> Exc("NameError")
      [] e[1] = "Bin" ->
            LET a == RawEval(e[3], vx, vy)
                b == RawEval(e[4], vx, vy)
            IN IF a.t = "exc" THEN a
               ELSE IF b.t = "exc" THEN b
               ELSE CASE e[2] = "+" -> Val(FAdd(a.v, b.v))
                      [] e[2] = "-" -> Val(FSub(a.v, b.v))
                      [] e[2] = "*" -> Val(FMul(a.v, b.v))
                      [] e[2] = "/" -> IF b.v = 0 THEN Exc("ZeroDivisionError") ELSE Val(FDiv(a.v, b.v))

\* FunctionParserError: the one exception type of the module.  kind is the
\* message template, at the (x, y) the message prints (<<>> when it prints
\* none), sym the symbol it names, cause the exception it was made from.
NoAt == <<>>
FunctionParserError(kind, at, sym, cause) ==
    [type |-> "FunctionParserError", kind |-> kind, at |-> at, sym |-> sym, cause |-> cause]
ValueErrorExc(kind) ==
    [type |-> "ValueError", kind |-> kind, at |-> NoAt, sym |-> "", cause |-> ""]
NoError == [type |-> "", kind |-> "", at |-> NoAt, sym |-> "", cause |-> ""]

Ok(v) == [ok |-> TRUE, v |-> v, err |-> NoError]
Raise(err) == [ok |-> FALSE, v |-> 0, err |-> err]

\* safe_wrapper(val_x, val_y) around the lambdified expression e.
SafeWrapper(e, vx, vy) ==
    LET r == RawEval(e, vx, vy)
    IN CASE r.t = "real" -> Ok(r.v)
         [] r.e = "ZeroDivisionError" ->
                Raise(FunctionParserError("division_by_zero", <<vx, vy>>, "", r.e))
         [] r.e = "ValueError" ->
                Raise(FunctionParserError("math_error", <<vx, vy>>, "", r.e))
         [] OTHER ->
                Raise(FunctionParserError("unexpected", NoAt, "", r.e))

\* The outcomes of parse_function(text): raised with err, or returned the
\* wrapper around the lambdified expression f.  lambdified records whether
\* lambdify ran.  The loop over free_symbols raises at the first foreign
\* symbol of an unordered set: any of them may be the one named.
ParseFunction(text) ==
    LET s == Sympify(text, AllowedLocals)
    IN IF ~s.ok
       THEN {[raised |-> TRUE, err |-> FunctionParserError("invalid", NoAt, "", "SympifyError"),
              lambdified |-> FALSE, f |-> NoExpr]}
       ELSE LET foreign == FreeSymbols(s.expr) \ {"x", "y"}
            IN IF foreign # {}
               THEN {[raised |-> TRUE, err |-> FunctionParserError("unknown_symbol", NoAt, sym, ""),
                      lambdified |-> FALSE, f |-> NoExpr] : sym \in foreign}
               ELSE {[raised |-> FALSE, err |-> NoError, lambdified |-> TRUE, f |-> s.expr]}

\* ------------------------------------------------------------- state
VARIABLES
    \* parse_function and the evaluator it returns
    ppc,            \* "start", "returned" (an evaluator), "raised"
    ptext,          \* the expression text given
    pout,           \* outcome of parse_function
    pcall,          \* the last call of the evaluator: arguments and outcome
    \* euler_method / improved_euler_method
    ipc,            \* "idle", "loop", "returned", "raised"
    method,         \* "EULER" or "HEUN"
    f,              \* the evaluator (the expression it wraps)
    x0, y0, h, x_end, corrector_iterations,
    points,         \* the list being built
    curr_x,
    curr_y,         \* euler_method
    curr_y_single,  \* improved_euler_method
    curr_y_iter,    \* improved_euler_method
    calls,          \* the (x, y) at which f was called in the last loop pass
    ncalls,         \* number of calls of f since the integrator was entered
    raised,         \* the exception that left the integrator
    ret,            \* the list the integrator returned
    \* solve_exact_ode
    spc,            \* where the call is: "idle", "entry", "armed", "parse",
                    \* "solve", "hung", "compile", "finally", "done"
    stext, sx0, sy0,
    has_alarm,      \* hasattr(signal, 'SIGALRM')
    handler,        \* the installed SIGALRM handler: "SIG_DFL" or "handler"
    armed,          \* an alarm is pending
    pending,        \* what the inner try block is leaving with
    sol,            \* what dsolve did
    sres,           \* what solve_exact_ode gave its caller
    fired,          \* where the alarm went off: "never", "inside", "after"
    \* run_simulation, and the caller of the exact evaluator
    rpc,            \* "idle", "try", "ref", "exact", "sample", "returned", "raised"
    rargs,          \* the arguments of run_simulation
    results,        \* the results dictionary
    ecall,          \* the last call of the exact evaluator: argument and outcome
    \* a second solve_exact_ode call, made in another thread of the process
    worker          \* its position, arguments, pending exit and result

parseVars == <<ppc, ptext, pout, pcall>>
inputVars == <<method, f, x0, y0, h, x_end, corrector_iterations>>
loopVars == <<points, curr_x, curr_y, curr_y_single, curr_y_iter, calls, ncalls>>
numVars == <<ipc, inputVars, loopVars, raised, ret>>
exactVars == <<spc, stext, sx0, sy0, has_alarm, handler, armed, pending, sol, sres, fired>>
simVars == <<rpc, rargs, results, ecall>>

NoCall == [called |-> FALSE, vx |-> 0, vy |-> 0, res |-> Ok(0)]
NoOut == [raised |-> FALSE, err |-> NoError, lambdified |-> FALSE, f |-> NoExpr]

NoPending == [kind |-> "none", exc |-> "", rhs |-> NoExpr]
NoResult == [kind |-> "unset", exc |-> "", rhs |-> NoExpr]
NoSol == [k |-> "none", sols |-> <<>>]

\* A field of the results dictionary: None, or a value.
None == [set |-> FALSE, v |-> <<>>]
Some(v) == [set |-> TRUE, v |-> v]

NoArgs == [method_type |-> "", func |-> NoExpr, func_str |-> TBad,
           x0 |-> 0, y0 |-> 0, h |-> 0, tf |-> 0]
NoResults == [method |-> "", euler_points |-> None, heun_points |-> None,
              exact_points |-> None, exact_func_str |-> None, error |-> None]
NoExactCall == [called |-> FALSE, vx |-> 0, res |-> Val(0)]
NoWorker == [pc |-> "idle", text |-> TBad, sol |-> NoSol, pending |-> NoPending,
             res |-> NoResult]

Init ==
    /\ ppc = "start"
    /\ ptext = TBad
    /\ pout = NoOut
    /\ pcall = NoCall
    /\ ipc = "idle"
    /\ method = ""
    /\ f = NoExpr
    /\ x0 = 0 /\ y0 = 0 /\ h = 0 /\ x_end = 0 /\ corrector_iterations = 0
    /\ points = <<>>
    /\ curr_x = 0 /\ curr_y = 0 /\ curr_y_single = 0 /\ curr_y_iter = 0
    /\ calls = <<>>
    /\ ncalls = 0
    /\ raised = NoError
    /\ ret = <<>>
    /\ spc = "idle"
    /\ stext = TBad
    /\ sx0 = 0 /\ sy0 = 0
    /\ has_alarm = FALSE
    /\ handler = "SIG_DFL"
    /\ armed = FALSE
    /\ pending = NoPending
    /\ sol = NoSol
    /\ sres = NoResult
    /\ fired = "never"
    /\ rpc = "idle"
    /\ rargs = NoArgs
    /\ results = NoResults
    /\ ecall = NoExactCall
    /\ worker = NoWorker

\* ------------------------------------------------------------- parse_function
\* The arguments the evaluator is called at.
Args == {Whole(i) : i \in (-MaxArg)..MaxArg} \cup {Whole(ExpMaxArg + 1)}

Parse(text) ==
    /\ ppc = "start"
    /\ \E o \in ParseFunction(text) :
        /\ pout' = o
        /\ ppc' = IF o.raised THEN "raised" ELSE "returned"
    /\ ptext' = text
    /\ UNCHANGED <<pcall, numVars, exactVars, simVars, worker>>

\* A call of the returned evaluator.
CallEvaluator(vx, vy) ==
    /\ ppc = "returned"
    /\ pcall' = [called |-> TRUE, vx |-> vx, vy |-> vy, res |-> SafeWrapper(pout.f, vx, vy)]
    /\ UNCHANGED <<ppc, ptext, pout, numVars, exactVars, simVars, worker>>

NextParse ==
    \/ \E text \in Texts : Parse(text)
    \/ \E vx \in Args, vy \in Args : CallEvaluator(vx, vy)

\* ------------------------------------------------------------- integrators
\* The evaluators the integrators are given: what parse_function returns for
\* y, x + y, x / y, sqrt(y) and exp(y).
NumTexts ==
    { TName("y"),
      TOp("+", TName("x"), TName("y")),
      TOp("/", TName("x"), TName("y")),
      TCall("sqrt", TName("y")),
      TCall("exp", TName("y")) }

Evaluators == {o.f : o \in {q \in UNION {ParseFunction(t) : t \in NumTexts} : ~q.raised}}

\* An x beyond the exact range, where the floats are 8 apart and a step of
\* Whole(1) is absorbed, and the float after it.
BigX == 2 ^ (MantBits + 2)
BigXEnd == BigX + Ulp(BigX, 1)

\* Longest list the model follows: a run from 0 to Whole(MaxXEnd) with h = 1
\* has MaxXEnd + 1 points.
MaxPoints == MaxXEnd + 1

X0s == {Whole(i) : i \in 0..MaxX0}
Y0s == {Whole(i) : i \in (-1)..MaxY0}
Hs == {Whole(i) : i \in (-1)..MaxH}
XEnds == {Whole(i) : i \in 0..MaxXEnd}

\* The intervals (x0, x_end) the integrators are run on: the small ones, and
\* one between two neighbouring large floats.
Intervals == (X0s \X XEnds) \cup {<<BigX, BigXEnd>>}
Iters == 0..MaxIter

\* f(x, y) as the integrators call it.
F(ff, vx, vy) == SafeWrapper(ff, vx, vy)

\* 1e-9, as the fraction 1 / EpsInv
EpsInv == 1000000000

\* curr_x < x_end - 1e-9 on the grid: (xe - cx) / Scale > 1 / EpsInv
LoopCond(cx, xe) == (xe - cx) > Scale \div EpsInv

\* EulerCheck with the step test written h < 0: a zero step passes.
MutEulerCheck(hh, a, xe) ==
    IF hh < 0 THEN ValueErrorExc("h")
    ELSE IF xe <= a THEN ValueErrorExc("x_end")
    ELSE NoError

\* The parameter checks of euler_method: the error raised, or NoError.
EulerCheck(hh, a, xe) ==
    IF hh <= 0 THEN ValueErrorExc("h")
    ELSE IF xe <= a THEN ValueErrorExc("x_end")
    ELSE NoError

\* The parameter checks of improved_euler_method.
HeunCheck(hh, a, xe, nn) ==
    IF hh <= 0 THEN ValueErrorExc("h")
    ELSE IF xe <= a THEN ValueErrorExc("x_end")
    ELSE IF nn < 1 THEN ValueErrorExc("corrector_iterations")
    ELSE NoError

\* EulerStep with the slope taken at the new x instead of the previous point.
MutEulerStep(ff, hh, cx, cy) ==
    LET slope == F(ff, FAdd(cx, hh), cy)
    IN [ok |-> slope.ok, err |-> slope.err,
        x |-> FAdd(cx, hh),
        y |-> FAdd(cy, FMul(hh, slope.v)),
        calls |-> <<<<FAdd(cx, hh), cy>>>>]

\* One pass of the loop of euler_method from (cx, cy).
EulerStep(ff, hh, cx, cy) ==
    LET slope == F(ff, cx, cy)
    IN [ok |-> slope.ok, err |-> slope.err,
        x |-> FAdd(cx, hh),
        y |-> FAdd(cy, FMul(hh, slope.v)),
        calls |-> <<<<cx, cy>>>>]

\* The predictor y_i + h * k1 and the corrector y_i + (h / 2.0) * (k1 + k2).
Predict(cy, hh, k1) == FAdd(cy, FMul(hh, k1))

Correct(cy, hh, k1, k2) == FAdd(cy, FMul(FDiv(hh, Whole(2)), FAdd(k1, k2)))

\* CorrectorPasses with k1 recomputed from the iterate on every pass.
RECURSIVE MutCorrectorPasses(_, _, _, _, _, _, _, _)
MutCorrectorPasses(ff, hh, cyi, k1_iter, x_next, y_iterated, left, log) ==
    IF left = 0
    THEN [ok |-> TRUE, err |-> NoError, y |-> y_iterated, calls |-> log]
    ELSE LET k1_new == F(ff, FSub(x_next, hh), y_iterated)
             k2_iter_new == F(ff, x_next, y_iterated)
             log2 == Append(log, <<x_next, y_iterated>>)
         IN IF ~k1_new.ok \/ ~k2_iter_new.ok
            THEN [ok |-> FALSE, err |-> k2_iter_new.err, y |-> y_iterated, calls |-> log2]
            ELSE MutCorrectorPasses(ff, hh, cyi, k1_new.v, x_next,
                     Correct(cyi, hh, k1_new.v, k2_iter_new.v),
                     left - 1, log2)

\* The corrector passes of one step: `left` passes from y_iterated, each
\* calling f at (x_next, y_iterated) with k1_iter as it was.
RECURSIVE CorrectorPasses(_, _, _, _, _, _, _, _)
CorrectorPasses(ff, hh, cyi, k1_iter, x_next, y_iterated, left, log) ==
    IF left = 0
    THEN [ok |-> TRUE, err |-> NoError, y |-> y_iterated, calls |-> log]
    ELSE LET k2_iter_new == F(ff, x_next, y_iterated)
             log2 == Append(log, <<x_next, y_iterated>>)
         IN IF ~k2_iter_new.ok
            THEN [ok |-> FALSE, err |-> k2_iter_new.err, y |-> y_iterated, calls |-> log2]
            ELSE CorrectorPasses(ff, hh, cyi, k1_iter, x_next,
                     Correct(cyi, hh, k1_iter, k2_iter_new.v),
                     left - 1, log2)

\* k2 = f(x_next, y_predict) and the first correction, k1 being known.
TrackK2(ff, hh, cx, cy, k1) ==
    LET k2 == F(ff, FAdd(cx, hh), Predict(cy, hh, k1))
    IN [ok |-> k2.ok, err |-> k2.err, k1 |-> k1,
        y |-> Correct(cy, hh, k1, k2.v),
        calls |-> <<<<cx, cy>>, <<FAdd(cx, hh), Predict(cy, hh, k1)>>>>]

\* k1, predictor, k2 and first correction from (cx, cy): what the loop does
\* for the single-correction value, and again for the iterated value.
Track(ff, hh, cx, cy) ==
    LET k1 == F(ff, cx, cy)
    IN IF k1.ok
       THEN TrackK2(ff, hh, cx, cy, k1.v)
       ELSE [ok |-> FALSE, err |-> k1.err, k1 |-> 0, y |-> 0, calls |-> <<<<cx, cy>>>>]

\* HeunFinish with the iterated value stored in both columns of the point.
MutHeunFinish(ff, hh, nn, cx, cyi, s, i) ==
    IF ~s.ok THEN [ok |-> FALSE, err |-> s.err, x |-> 0, y_single |-> 0, y_iter |-> 0,
                   calls |-> s.calls]
    ELSE IF ~i.ok THEN [ok |-> FALSE, err |-> i.err, x |-> 0, y_single |-> 0, y_iter |-> 0,
                        calls |-> s.calls \o i.calls]
    ELSE LET p == CorrectorPasses(ff, hh, cyi, i.k1, FAdd(cx, hh), i.y,
                                  IF nn > 1 THEN nn - 1 ELSE 0, s.calls \o i.calls)
         IN [ok |-> p.ok, err |-> p.err, x |-> FAdd(cx, hh),
             y_single |-> p.y, y_iter |-> p.y, calls |-> p.calls]

\* The step, the single-correction track s and the iterated track i (after
\* its first correction) being computed: the further passes, then the point.
HeunFinish(ff, hh, nn, cx, cyi, s, i) ==
    IF ~s.ok THEN [ok |-> FALSE, err |-> s.err, x |-> 0, y_single |-> 0, y_iter |-> 0,
                   calls |-> s.calls]
    ELSE IF ~i.ok THEN [ok |-> FALSE, err |-> i.err, x |-> 0, y_single |-> 0, y_iter |-> 0,
                        calls |-> s.calls \o i.calls]
    ELSE LET p == CorrectorPasses(ff, hh, cyi, i.k1, FAdd(cx, hh), i.y,
                                  IF nn > 1 THEN nn - 1 ELSE 0, s.calls \o i.calls)
         IN [ok |-> p.ok, err |-> p.err, x |-> FAdd(cx, hh),
             y_single |-> s.y, y_iter |-> p.y, calls |-> p.calls]

\* HeunStep with the single-correction value advanced from the iterated value.
MutHeunStep(ff, hh, nn, cx, cys, cyi) ==
    HeunFinish(ff, hh, nn, cx, cyi, Track(ff, hh, cx, cyi), Track(ff, hh, cx, cyi))

\* One pass of the loop of improved_euler_method from (cx, cys, cyi).
HeunStep(ff, hh, nn, cx, cys, cyi) ==
    HeunFinish(ff, hh, nn, cx, cyi, Track(ff, hh, cx, cys), Track(ff, hh, cx, cyi))

\* euler_method(f, x0, y0, h, x_end): entry, parameter checks, first point.
EulerCall(ff, a, b, hh, xe) ==
    /\ ipc = "idle"
    /\ method' = "EULER"
    /\ f' = ff /\ x0' = a /\ y0' = b /\ h' = hh /\ x_end' = xe
    /\ UNCHANGED corrector_iterations
    /\ LET e == EulerCheck(hh, a, xe)
       IN IF e # NoError
          THEN /\ ipc' = "raised"
               /\ raised' = e
               /\ UNCHANGED loopVars
          ELSE /\ ipc' = "loop"
               /\ points' = <<<<a, b>>>>
               /\ curr_x' = a
               /\ curr_y' = b
               /\ UNCHANGED <<raised, curr_y_single, curr_y_iter, calls, ncalls>>
    /\ UNCHANGED <<ret, parseVars, exactVars, simVars, worker>>

\* improved_euler_method(f, x0, y0, h, x_end, corrector_iterations): entry.
HeunCall(ff, a, b, hh, xe, nn) ==
    /\ ipc = "idle"
    /\ method' = "HEUN"
    /\ f' = ff /\ x0' = a /\ y0' = b /\ h' = hh /\ x_end' = xe
    /\ corrector_iterations' = nn
    /\ LET e == HeunCheck(hh, a, xe, nn)
       IN IF e # NoError
          THEN /\ ipc' = "raised"
               /\ raised' = e
               /\ UNCHANGED loopVars
          ELSE /\ ipc' = "loop"
               /\ points' = <<<<a, b, b>>>>
               /\ curr_x' = a
               /\ curr_y_single' = b
               /\ curr_y_iter' = b
               /\ UNCHANGED <<raised, curr_y, calls, ncalls>>
    /\ UNCHANGED <<ret, parseVars, exactVars, simVars, worker>>

\* One pass of the while loop of euler_method.
EulerLoop ==
    /\ ipc = "loop" /\ method = "EULER"
    /\ LoopCond(curr_x, x_end)
    /\ Len(points) < MaxPoints
    /\ LET s == EulerStep(f, h, curr_x, curr_y)
       IN /\ calls' = s.calls
          /\ ncalls' = ncalls + Len(s.calls)
          /\ IF s.ok
             THEN /\ curr_y' = s.y
                  /\ curr_x' = s.x
                  /\ points' = Append(points, <<s.x, s.y>>)
                  /\ UNCHANGED <<ipc, raised>>
             ELSE /\ ipc' = "raised"
                  /\ raised' = s.err
                  /\ UNCHANGED <<curr_x, curr_y, points>>
    /\ UNCHANGED <<inputVars, curr_y_single, curr_y_iter, ret, parseVars, exactVars, simVars, worker>>

\* One pass of the while loop of improved_euler_method.
HeunLoop ==
    /\ ipc = "loop" /\ method = "HEUN"
    /\ LoopCond(curr_x, x_end)
    /\ Len(points) < MaxPoints
    /\ LET s == HeunStep(f, h, corrector_iterations, curr_x, curr_y_single, curr_y_iter)
       IN /\ calls' = s.calls
          /\ ncalls' = ncalls + Len(s.calls)
          /\ IF s.ok
             THEN /\ curr_x' = s.x
                  /\ curr_y_single' = s.y_single
                  /\ curr_y_iter' = s.y_iter
                  /\ points' = Append(points, <<s.x, s.y_single, s.y_iter>>)
                  /\ UNCHANGED <<ipc, raised>>
             ELSE /\ ipc' = "raised"
                  /\ raised' = s.err
                  /\ UNCHANGED <<curr_x, curr_y_single, curr_y_iter, points>>
    /\ UNCHANGED <<inputVars, curr_y, ret, parseVars, exactVars, simVars, worker>>

\* The loop condition fails: return points.
Return ==
    /\ ipc = "loop"
    /\ ~LoopCond(curr_x, x_end)
    /\ ipc' = "returned"
    /\ ret' = points
    /\ UNCHANGED <<inputVars, loopVars, raised, parseVars, exactVars, simVars, worker>>

NextNum ==
    \/ /\ ipc = "idle"
       /\ \E ff \in Evaluators, iv \in Intervals, b \in Y0s, hh \in Hs :
               EulerCall(ff, iv[1], b, hh, iv[2])
    \/ /\ ipc = "idle"
       /\ \E ff \in Evaluators, iv \in Intervals, b \in Y0s, hh \in Hs, nn \in Iters :
               HeunCall(ff, iv[1], b, hh, iv[2], nn)
    \/ EulerLoop
    \/ HeunLoop
    \/ Return

\* ------------------------------------------------------------- solve_exact_ode
\* Largest number of candidate solutions dsolve returns in a list.
MaxSols == 2

\* locals of the sympify call of solve_exact_ode
ExactLocals == {"x", "y", "e"}

\* Closed forms y(x) the solver may find.
ClosedForms == {Fn("exp", Sym("x")), Fn("sqrt", Sym("x")), Bin("/", Num(1), Sym("x"))}

SolLists == UNION {[1..n -> ClosedForms] : n \in 0..MaxSols}

\* What sp.dsolve may do, whatever the equation: raise (no closed form found,
\* or any failure), never return, return one equation, return a list.
SolverOutcomes ==
    {[k |-> "raise", sols |-> <<>>], [k |-> "hang", sols |-> <<>>]}
    \cup {[k |-> "eq", sols |-> <<c>>] : c \in ClosedForms}
    \cup {[k |-> "list", sols |-> l] : l \in SolLists}

\* The expression texts the search is run on.
ExactTexts == NumTexts \cup {TBad}

\* Exception classes derived from Exception.
ExceptionClasses ==
    {"TimeoutError", "SympifyError", "NotImplementedError", "IndexError", "ValueError"}

\* Catches without the second clause, except Exception.
MutCatches(exc) == exc = "TimeoutError"

\* The except clauses of solve_exact_ode: whether exc is caught.
Catches(exc) == exc = "TimeoutError" \/ exc \in ExceptionClasses

\* Handle without the clause except TimeoutError, and TimeoutError not caught by
\* the clause except Exception.
MutHandle(exc) ==
    IF exc # "TimeoutError" /\ exc \in ExceptionClasses
    THEN [kind |-> "None", exc |-> "", rhs |-> NoExpr]
    ELSE [kind |-> "propagated", exc |-> exc, rhs |-> NoExpr]

\* What the caller gets when exc reaches the except clauses.
Handle(exc) ==
    IF Catches(exc)
    THEN [kind |-> "None", exc |-> "", rhs |-> NoExpr]
    ELSE [kind |-> "propagated", exc |-> exc, rhs |-> NoExpr]

\* AlarmAfterFinally with signal.alarm(0) placed after the solve instead of in
\* a finally block: it runs only when the inner block returns.
MutAlarmAfterFinally(ha, ar, pend) == IF ha /\ pend.kind = "return" THEN FALSE ELSE ar

\* The finally block: whether an alarm is pending after it, the inner block
\* leaving with pend.
AlarmAfterFinally(ha, ar, pend) == IF ha THEN FALSE ELSE ar

Raising(exc) == [kind |-> "raise", exc |-> exc, rhs |-> NoExpr]
Returning(rhs) == [kind |-> "return", exc |-> "", rhs |-> rhs]

\* float('nan')
NaN == [t |-> "nan", v |-> 0, e |-> ""]

\* The exceptions evaluating a closed form can raise; all derive from
\* Exception.
EvalExceptionClasses == {"ZeroDivisionError", "ValueError", "OverflowError", "NameError"}

\* SafeRealY with the clause written except ValueError.
MutSafeRealY(rhs, vx) ==
    LET r == RawEval(rhs, vx, 0)
    IN IF r.t = "exc" /\ r.e = "ValueError" THEN NaN ELSE r

\* safe_real_y(val_x) for the closed form rhs: float(real_lambda(val_x)), or
\* nan on an exception caught by except Exception.
SafeRealY(rhs, vx) ==
    LET r == RawEval(rhs, vx, 0)
    IN IF r.t = "exc" /\ r.e \in EvalExceptionClasses THEN NaN ELSE r

\* solve_exact_ode(expression_str, x0, y0) is entered; has_alarm is read.
SolveCall(text, a, b, alarm) ==
    /\ spc = "idle"
    /\ spc' = "entry"
    /\ stext' = text /\ sx0' = a /\ sy0' = b
    /\ has_alarm' = alarm
    /\ UNCHANGED <<handler, armed, pending, sol, sres, fired, parseVars, numVars, simVars, worker>>

\* signal.signal(SIGALRM, handler); signal.alarm(3), when has_alarm.
Arm ==
    /\ spc = "entry"
    /\ IF has_alarm
       THEN /\ handler' = "handler"
            /\ armed' = TRUE
            /\ spc' = "armed"
       ELSE /\ spc' = "parse"
            /\ UNCHANGED <<handler, armed>>
    /\ UNCHANGED <<stext, sx0, sy0, has_alarm, pending, sol, sres, fired, parseVars, numVars, simVars, worker>>

\* The inner try block is entered.
EnterTry ==
    /\ spc = "armed"
    /\ spc' = "parse"
    /\ UNCHANGED <<stext, sx0, sy0, has_alarm, handler, armed, pending, sol, sres, fired,
                   parseVars, numVars, simVars, worker>>

\* sp.sympify(expression_str, locals=...) and the equation built from it.
ParseExpr ==
    /\ spc = "parse"
    /\ IF Sympify(stext, ExactLocals).ok
       THEN /\ spc' = "solve"
            /\ UNCHANGED pending
       ELSE /\ spc' = "finally"
            /\ pending' = Raising("SympifyError")
    /\ UNCHANGED <<stext, sx0, sy0, has_alarm, handler, armed, sol, sres, fired,
                   parseVars, numVars, simVars, worker>>

\* sp.dsolve(ode_eq, y, ics=...)
Dsolve(o) ==
    /\ spc = "solve"
    /\ sol' = o
    /\ CASE o.k = "raise" -> spc' = "finally" /\ pending' = Raising("NotImplementedError")
         [] o.k = "hang" -> spc' = "hung" /\ UNCHANGED pending
         [] OTHER -> spc' = "compile" /\ UNCHANGED pending
    /\ UNCHANGED <<stext, sx0, sy0, has_alarm, handler, armed, sres, fired, parseVars, numVars, simVars, worker>>

\* sol[0] of a list, sol.rhs, lambdify, and the return statement.
Compile ==
    /\ spc = "compile"
    /\ spc' = "finally"
    /\ pending' = IF Len(sol.sols) = 0 THEN Raising("IndexError") ELSE Returning(sol.sols[1])
    /\ UNCHANGED <<stext, sx0, sy0, has_alarm, handler, armed, sol, sres, fired,
                   parseVars, numVars, simVars, worker>>

\* The finally block, then the return or the except clauses.
Finally ==
    /\ spc = "finally"
    /\ armed' = AlarmAfterFinally(has_alarm, armed, pending)
    /\ sres' = IF pending.kind = "return"
               THEN [kind |-> "pair", exc |-> "", rhs |-> pending.rhs]
               ELSE Handle(pending.exc)
    /\ spc' = "done"
    /\ UNCHANGED <<stext, sx0, sy0, has_alarm, handler, pending, sol, fired, parseVars, numVars, simVars, worker>>

\* The pending alarm goes off: handler raises TimeoutError where the program
\* is.  In the outer try block it reaches the except clauses; in the inner
\* one it leaves through the finally block; in the finally block (before
\* signal.alarm(0)) it replaces what the block was leaving with; after the
\* call has returned it is raised in the caller's code.
AlarmFires ==
    /\ armed /\ handler = "handler"
    /\ spc # "idle" /\ spc # "entry"
    /\ armed' = FALSE
    /\ CASE spc \in {"armed", "finally"} ->
                /\ spc' = "done"
                /\ sres' = Handle("TimeoutError")
                /\ fired' = "inside"
                /\ UNCHANGED pending
         [] spc \in {"parse", "solve", "hung", "compile"} ->
                /\ spc' = "finally"
                /\ pending' = Raising("TimeoutError")
                /\ fired' = "inside"
                /\ UNCHANGED sres
         [] OTHER ->
                /\ fired' = "after"
                /\ UNCHANGED <<spc, pending, sres>>
    /\ UNCHANGED <<stext, sx0, sy0, has_alarm, handler, sol, parseVars, numVars, simVars, worker>>

\* The caller calls the evaluator solve_exact_ode returned.
CallSafeRealY(vx) ==
    /\ spc = "done" /\ sres.kind = "pair"
    /\ ecall' = [called |-> TRUE, vx |-> vx, res |-> SafeRealY(sres.rhs, vx)]
    /\ UNCHANGED <<rpc, rargs, results, parseVars, numVars, exactVars, worker>>

NextExact ==
    \/ \E text \in ExactTexts, a \in X0s, b \in Y0s, alarm \in BOOLEAN : SolveCall(text, a, b, alarm)
    \/ Arm
    \/ EnterTry
    \/ ParseExpr
    \/ \E o \in SolverOutcomes : Dsolve(o)
    \/ Compile
    \/ Finally
    \/ AlarmFires
    \/ \E vx \in Args : CallSafeRealY(vx)

\* ------------------------------------------------------------- run_simulation
\* 'EULER', 'HEUN', and a string that is neither.
MethodTypes == {"EULER", "HEUN", "RK4"}

\* The arguments of the runs followed: any evaluator, x0 and tf on the exact
\* part of the grid, and of dsolve's outcomes those with at most one solution.
SimX0s == {Whole(i) : i \in 0..MaxX0}
SimTfs == {Whole(i) : i \in 0..MaxXEnd}
SimSolverOutcomes == {o \in SolverOutcomes : Len(o.sols) <= 1}

\* str(e), str(rhs)
Str(v) == <<"str", v>>

\* SimCatches with the clause written except ValueError.
MutSimCatches(type) == type = "ValueError"

\* except Exception as e: whether an exception of this class is caught.
SimCatches(type) ==
    type \in {"FunctionParserError"} \cup ExceptionClasses \cup EvalExceptionClasses

\* Truthy that holds of None and of the empty list too.
MutTruthy(field) == TRUE

\* The truth value of a field holding None or a list.
Truthy(field) == field.set /\ Len(field.v) > 0

\* ref_points
RefPoints(res) == IF Truthy(res.euler_points) THEN res.euler_points ELSE res.heun_points

\* WithTrajectory storing the list under both keys.
MutWithTrajectory(res, mt, pts) ==
    [res EXCEPT !.euler_points = Some(pts), !.heun_points = Some(pts)]

\* The assignment of the integrator's list to the key of the method.
WithTrajectory(res, mt, pts) ==
    IF mt = "EULER"
    THEN [res EXCEPT !.euler_points = Some(pts)]
    ELSE [res EXCEPT !.heun_points = Some(pts)]

\* Sample evaluating at the second component of each point.
MutSample(rhs, ref) == [i \in 1..Len(ref) |-> SafeRealY(rhs, ref[i][2])]

\* [real_func(p[0]) for p in ref_points]
Sample(rhs, ref) == [i \in 1..Len(ref) |-> SafeRealY(rhs, ref[i][1])]

\* Integrator with else in place of elif method_type == 'HEUN'.
MutIntegrator(mt) == IF mt = "EULER" THEN "euler_method" ELSE "improved_euler_method"

\* The if / elif on method_type: the integrator called, "none" when neither
\* branch is taken.
Integrator(mt) ==
    IF mt = "EULER" THEN "euler_method"
    ELSE IF mt = "HEUN" THEN "improved_euler_method"
    ELSE "none"

\* run_simulation(method_type, func, func_str, x0, y0, h, tf) is entered with
\* the evaluator of func_str; the results dictionary is built.
RunSimulation(mt, text, a, b, hh, tf) ==
    /\ rpc = "idle"
    /\ \E o \in ParseFunction(text) :
          /\ ~o.raised
          /\ rargs' = [method_type |-> mt, func |-> o.f, func_str |-> text,
                       x0 |-> a, y0 |-> b, h |-> hh, tf |-> tf]
    /\ results' = [NoResults EXCEPT !.method = mt]
    /\ rpc' = "try"
    /\ UNCHANGED <<ecall, parseVars, numVars, exactVars, worker>>

\* The call of the integrator of the method; improved_euler_method with its
\* default corrector_iterations.
SimIntegrate ==
    /\ rpc = "try"
    /\ \/ /\ Integrator(rargs.method_type) = "euler_method"
          /\ EulerCall(rargs.func, rargs.x0, rargs.y0, rargs.h, rargs.tf)
       \/ /\ Integrator(rargs.method_type) = "improved_euler_method"
          /\ HeunCall(rargs.func, rargs.x0, rargs.y0, rargs.h, rargs.tf, 1)

\* Neither branch of the if is taken.
SimNoIntegrator ==
    /\ rpc = "try"
    /\ Integrator(rargs.method_type) = "none"
    /\ rpc' = "ref"
    /\ UNCHANGED <<rargs, results, ecall, parseVars, numVars, exactVars, worker>>

\* The integrator returned: its list is stored.
SimAssign ==
    /\ rpc = "try" /\ ipc = "returned"
    /\ results' = WithTrajectory(results, rargs.method_type, ret)
    /\ rpc' = "ref"
    /\ UNCHANGED <<rargs, ecall, parseVars, numVars, exactVars, worker>>

\* The integrator raised: the except clause.
SimExcept ==
    /\ rpc = "try" /\ ipc = "raised"
    /\ IF SimCatches(raised.type)
       THEN /\ results' = [results EXCEPT !.error = Some(Str(raised))]
            /\ rpc' = "returned"
       ELSE /\ rpc' = "raised"
            /\ UNCHANGED results
    /\ UNCHANGED <<rargs, ecall, parseVars, numVars, exactVars, worker>>

\* ref_points is chosen and tested.
SimRef ==
    /\ rpc = "ref"
    /\ rpc' = IF Truthy(RefPoints(results)) THEN "exact" ELSE "returned"
    /\ UNCHANGED <<rargs, results, ecall, parseVars, numVars, exactVars, worker>>

\* solve_exact_ode(func_str, x0, y0)
SimSolve(alarm) ==
    /\ rpc = "exact"
    /\ SolveCall(rargs.func_str, rargs.x0, rargs.y0, alarm)

\* solve_exact_ode is back: None, a pair (exact_func_str is stored), or an
\* exception it let through.
SimExactResult ==
    /\ rpc = "exact" /\ spc = "done"
    /\ CASE sres.kind = "pair" ->
                /\ results' = [results EXCEPT !.exact_func_str = Some(Str(sres.rhs))]
                /\ rpc' = "sample"
         [] sres.kind = "None" ->
                /\ rpc' = "returned"
                /\ UNCHANGED results
         [] OTHER ->
                IF SimCatches(sres.exc)
                THEN /\ results' = [results EXCEPT !.error = Some(Str(sres.exc))]
                     /\ rpc' = "returned"
                ELSE /\ rpc' = "raised"
                     /\ UNCHANGED results
    /\ UNCHANGED <<rargs, ecall, parseVars, numVars, exactVars, worker>>

\* The list of exact values over ref_points; an exception of the evaluator
\* leaves the comprehension for the except clause.
SimSample ==
    /\ rpc = "sample"
    /\ LET pts == Sample(sres.rhs, RefPoints(results).v)
           bad == {i \in 1..Len(pts) : pts[i].t = "exc"}
       IN IF bad = {}
          THEN /\ results' = [results EXCEPT !.exact_points = Some(pts)]
               /\ rpc' = "returned"
          ELSE IF \A i \in bad : SimCatches(pts[i].e)
          THEN /\ results' = [results EXCEPT !.error = Some(Str(pts[CHOOSE i \in bad : \A j \in bad : i <= j].e))]
               /\ rpc' = "returned"
          ELSE /\ rpc' = "raised"
               /\ UNCHANGED results
    /\ UNCHANGED <<rargs, ecall, parseVars, numVars, exactVars, worker>>

NextSim ==
    \/ /\ rpc = "idle"
       /\ \E mt \in MethodTypes, text \in NumTexts, a \in SimX0s, b \in Y0s, hh \in Hs,
             tf \in SimTfs :
               RunSimulation(mt, text, a, b, hh, tf)
    \/ SimIntegrate
    \/ SimNoIntegrator
    \/ EulerLoop
    \/ HeunLoop
    \/ Return
    \/ SimAssign
    \/ SimExcept
    \/ SimRef
    \/ \E alarm \in BOOLEAN : SimSolve(alarm)
    \/ Arm
    \/ EnterTry
    \/ ParseExpr
    \/ \E o \in SimSolverOutcomes : Dsolve(o)
    \/ Compile
    \/ Finally
    \/ AlarmFires
    \/ SimExactResult
    \/ SimSample

\* ------------------------------------------------------------- two runs
\* A second call of solve_exact_ode in the same process, concurrent with the
\* first.  The first runs in the main thread, where signal handlers are
\* installed and run; the second runs in another thread.  The handler and the
\* alarm (handler, armed) belong to the process; has_alarm is a property of
\* the platform, so the second call is followed once the first has read it.
\* What dsolve does for the second call's equation is fixed when the call is
\* made.
TwoTexts == {TName("y"), TBad}
TwoOutcomes ==
    { [k |-> "raise", sols |-> <<>>], [k |-> "hang", sols |-> <<>>],
      [k |-> "eq", sols |-> <<Fn("exp", Sym("x"))>>], [k |-> "list", sols |-> <<>>] }

WorkerCall(text, o) ==
    /\ spc # "idle"
    /\ worker.pc = "idle"
    /\ worker' = [worker EXCEPT !.pc = "entry", !.text = text, !.sol = o]
    /\ UNCHANGED <<parseVars, numVars, exactVars, simVars>>

\* signal.signal(SIGALRM, handler) outside the main thread raises ValueError,
\* in the outer try block, before signal.alarm(3) and before the inner try.
WorkerArm ==
    /\ worker.pc = "entry"
    /\ worker' = IF has_alarm
                 THEN [worker EXCEPT !.pc = "done", !.res = Handle("ValueError")]
                 ELSE [worker EXCEPT !.pc = "parse"]
    /\ UNCHANGED <<parseVars, numVars, exactVars, simVars>>

WorkerParse ==
    /\ worker.pc = "parse"
    /\ worker' = IF Sympify(worker.text, ExactLocals).ok
                 THEN [worker EXCEPT !.pc = "solve"]
                 ELSE [worker EXCEPT !.pc = "finally", !.pending = Raising("SympifyError")]
    /\ UNCHANGED <<parseVars, numVars, exactVars, simVars>>

WorkerDsolve ==
    /\ worker.pc = "solve"
    /\ worker' = CASE worker.sol.k = "raise" ->
                        [worker EXCEPT !.pc = "finally",
                                       !.pending = Raising("NotImplementedError")]
                   [] worker.sol.k = "hang" -> [worker EXCEPT !.pc = "hung"]
                   [] OTHER -> [worker EXCEPT !.pc = "compile"]
    /\ UNCHANGED <<parseVars, numVars, exactVars, simVars>>

WorkerCompile ==
    /\ worker.pc = "compile"
    /\ worker' = [worker EXCEPT !.pc = "finally",
                                !.pending = IF Len(worker.sol.sols) = 0
                                            THEN Raising("IndexError")
                                            ELSE Returning(worker.sol.sols[1])]
    /\ UNCHANGED <<parseVars, numVars, exactVars, simVars>>

\* The finally block of the second call acts on the alarm of the process.
WorkerFinally ==
    /\ worker.pc = "finally"
    /\ armed' = AlarmAfterFinally(has_alarm, armed, worker.pending)
    /\ worker' = [worker EXCEPT !.pc = "done",
                                !.res = IF worker.pending.kind = "return"
                                        THEN [kind |-> "pair", exc |-> "",
                                              rhs |-> worker.pending.rhs]
                                        ELSE Handle(worker.pending.exc)]
    /\ UNCHANGED <<spc, stext, sx0, sy0, has_alarm, handler, pending, sol, sres, fired,
                   parseVars, numVars, simVars>>

NextTwo ==
    \/ \E text \in TwoTexts, alarm \in BOOLEAN : SolveCall(text, Whole(0), Whole(1), alarm)
    \/ Arm
    \/ EnterTry
    \/ ParseExpr
    \/ \E o \in TwoOutcomes : Dsolve(o)
    \/ Compile
    \/ Finally
    \/ AlarmFires
    \/ \E text \in TwoTexts, o \in TwoOutcomes : WorkerCall(text, o)
    \/ WorkerArm
    \/ WorkerParse
    \/ WorkerDsolve
    \/ WorkerCompile
    \/ WorkerFinally

vars == <<parseVars, numVars, exactVars, simVars, worker>>

SpecParse == Init /\ [][NextParse]_vars

SpecNum == Init /\ [][NextNum]_vars

SpecExact == Init /\ [][NextExact]_vars

SpecSim == Init /\ [][NextSim]_vars

SpecTwo == Init /\ [][NextTwo]_vars

\* solve_exact_ode run to its end: every statement that can execute does, and
\* the kernel delivers a pending SIGALRM.  dsolve itself is not forced to
\* return.
SpecExactFair ==
    /\ Init /\ [][NextExact]_vars
    /\ WF_vars(Arm) /\ WF_vars(EnterTry) /\ WF_vars(ParseExpr)
    /\ WF_vars(Compile) /\ WF_vars(Finally)
    /\ WF_vars(AlarmFires)

\* ------------------------------------------------------------- properties
Valid == h > 0 /\ x_end > x0 /\ (method = "HEUN" => corrector_iterations >= 1)

\* C1: once an integrator has been entered with h <= 0 or x_end <= x0 it has
\* raised the parameter error that names the violated constraint, f has not
\* been called and nothing was returned; entered with valid parameters it
\* never raises a parameter error.
C1_ParameterErrors ==
    ipc # "idle" =>
        IF h <= 0 \/ x_end <= x0
        THEN /\ ipc = "raised"
             /\ raised.type = "ValueError"
             /\ raised.kind = (IF h <= 0 THEN "h" ELSE "x_end")
             /\ ncalls = 0
             /\ points = <<>> /\ ret = <<>>
        ELSE Valid => raised.type # "ValueError"

C1_Witness ==
    /\ ipc = "raised" /\ method = "HEUN" /\ raised.kind = "x_end"
    /\ h > 0 /\ x_end <= x0 /\ corrector_iterations >= 1

\* C2: the list of euler_method starts with (x0, y0), each next point is
\* (x_i + h, y_i + h * f(x_i, y_i)), and the step that added a point called f
\* exactly once, at the previous point.
C2_EulerRecurrence ==
    (method = "EULER" /\ ipc \in {"loop", "returned"}) =>
        /\ points[1] = <<x0, y0>>
        /\ \A i \in 1..(Len(points) - 1) :
              LET s == SafeWrapper(f, points[i][1], points[i][2])
              IN /\ s.ok
                 /\ points[i + 1][1] = FAdd(points[i][1], h)
                 /\ points[i + 1][2] = FAdd(points[i][2], FMul(h, s.v))
        /\ ncalls = Len(points) - 1
        /\ Len(points) > 1 => calls = <<points[Len(points) - 1]>>
        /\ ipc = "returned" => ret = points

C2_Witness ==
    /\ method = "EULER" /\ ipc = "returned" /\ Len(ret) >= 4
    /\ ret[4][2] # ret[1][2]

\* The first correction from (xi, yi), written from the formulas.
FirstCorrection(xi, yi) ==
    LET k1 == SafeWrapper(f, xi, yi).v
        ystar == FAdd(yi, FMul(h, k1))
        k2 == SafeWrapper(f, FAdd(xi, h), ystar).v
    IN FAdd(yi, FMul(FDiv(h, Whole(2)), FAdd(k1, k2)))

\* C3: in the list of improved_euler_method the second component of each point
\* is the first correction computed from the second component of the point
\* before it: k1 = f(x_i, y_i), y* = y_i + h k1, k2 = f(x_i + h, y*),
\* y_i + (h / 2)(k1 + k2); the step called f at (x_i, y_i) and at (x_i + h, y*).
C3_SingleCorrection ==
    (method = "HEUN" /\ ipc \in {"loop", "returned"}) =>
        /\ \A i \in 1..(Len(points) - 1) :
              /\ points[i + 1][1] = FAdd(points[i][1], h)
              /\ points[i + 1][2] = FirstCorrection(points[i][1], points[i][2])
        /\ Len(points) > 1 =>
              LET p == points[Len(points) - 1]
              IN /\ calls[1] = <<p[1], p[2]>>
                 /\ calls[2] = <<FAdd(p[1], h), FAdd(p[2], FMul(h, SafeWrapper(f, p[1], p[2]).v))>>

C3_Witness ==
    /\ method = "HEUN" /\ ipc = "returned" /\ Len(ret) >= 3
    /\ corrector_iterations >= 2
    /\ ret[2][2] # ret[2][3]
    /\ ret[3][2] # ret[2][2]

\* The k-th pass from y: y_i + (h / 2)(k1 + f(x_next, y)), k1 fixed.
RECURSIVE Passes(_, _, _, _, _)
Passes(yi, k1, xn, y, k) ==
    IF k = 0 THEN y
    ELSE Passes(yi, k1, xn,
                FAdd(yi, FMul(FDiv(h, Whole(2)), FAdd(k1, SafeWrapper(f, xn, y).v))), k - 1)

\* C4: with n corrector iterations the third component of each point is the
\* first correction from the third component of the point before it, refined
\* by exactly n - 1 passes that keep k1 = f(x_i, y_i); the step called f four
\* times for the two first corrections and once per pass, each pass at x_i + h.
C4_IteratedCorrector ==
    (method = "HEUN" /\ ipc \in {"loop", "returned"}) =>
        /\ \A i \in 1..(Len(points) - 1) :
              LET xi == points[i][1]
                  yi == points[i][3]
              IN points[i + 1][3] =
                    Passes(yi, SafeWrapper(f, xi, yi).v, FAdd(xi, h), FirstCorrection(xi, yi),
                           corrector_iterations - 1)
        /\ Len(points) > 1 =>
              LET p == points[Len(points) - 1]
              IN /\ Len(calls) = 4 + (corrector_iterations - 1)
                 /\ calls[3] = <<p[1], p[3]>>
                 /\ \A j \in 5..Len(calls) : calls[j][1] = FAdd(p[1], h)

C4_Witness ==
    /\ method = "HEUN" /\ ipc = "returned" /\ Len(ret) >= 3
    /\ corrector_iterations >= 3
    /\ ret[3][3] # ret[3][2]
    /\ Len(calls) = 4 + (corrector_iterations - 1)

\* C5: an integrator that stopped on an error of f raised that error, the
\* error carries the (x, y) at which f was called, and nothing was returned.
C5_AbortCarriesPoint ==
    (ipc = "raised" /\ raised.type = "FunctionParserError") =>
        /\ raised = SafeWrapper(f, calls[Len(calls)][1], calls[Len(calls)][2]).err
        /\ raised.at = calls[Len(calls)]
        /\ ret = <<>>

\* The part of C5 that does not rest on the error's text: the integration
\* stops at the first failing call of f and returns nothing.
C5_AbortsWithoutResult ==
    (ipc = "raised" /\ raised.type = "FunctionParserError") =>
        /\ raised = SafeWrapper(f, calls[Len(calls)][1], calls[Len(calls)][2]).err
        /\ ret = <<>>

\* The names of a text that sympify turns into Symbols.
RECURSIVE TextSymbols(_)
TextSymbols(t) ==
    CASE t[1] = "name" -> {t[2]} \ ({"pi", "e"} \cup SympyGlobals)
      [] t[1] = "call" -> TextSymbols(t[3])
      [] t[1] = "op" -> TextSymbols(t[3]) \cup TextSymbols(t[4])
      [] OTHER -> {}

\* C6: parse_function given a text with a symbol other than x and y has
\* raised the unknown-symbol error naming such a symbol, and lambdify did not
\* run.
C6_ForeignSymbolRejected ==
    (ppc # "start" /\ TextSymbols(ptext) \ {"x", "y"} # {}) =>
        /\ ppc = "raised"
        /\ pout.err.kind = "unknown_symbol"
        /\ pout.err.sym \in TextSymbols(ptext) \ {"x", "y"}
        /\ ~pout.lambdified

\* What the code does keep of C6: a foreign symbol left in the parsed
\* expression is rejected before lambdify.
C6_ParsedSymbolRejected ==
    (ppc # "start" /\ Sympify(ptext, AllowedLocals).ok
        /\ FreeSymbols(Sympify(ptext, AllowedLocals).expr) \ {"x", "y"} # {}) =>
        /\ ppc = "raised"
        /\ pout.err.kind = "unknown_symbol"
        /\ pout.err.sym \in TextSymbols(ptext) \ {"x", "y"}
        /\ ~pout.lambdified

\* The names a text uses (variables, constants and functions).
RECURSIVE TextNames(_)
TextNames(t) ==
    CASE t[1] = "name" -> {t[2]}
      [] t[1] = "call" -> {t[2]} \cup TextNames(t[3])
      [] t[1] = "op" -> TextNames(t[3]) \cup TextNames(t[4])
      [] OTHER -> {}

\* C7: parse_function returned an evaluator only for a text all of whose
\* names are in the vocabulary x, y, sin, cos, tan, exp, log, sqrt, pi, e
\* (texts with a symbol other than x and y are C6's).
C7_VocabularyOnly ==
    (ppc = "returned" /\ TextSymbols(ptext) \subseteq {"x", "y"}) =>
        TextNames(ptext) \subseteq AllowedLocals

\* C8: a call of the evaluator at (vx, vy) that fails raises
\* FunctionParserError carrying (vx, vy) and a cause.
C8_EvaluationErrorCarriesPoint ==
    (pcall.called /\ ~pcall.res.ok) =>
        /\ pcall.res.err.type = "FunctionParserError"
        /\ pcall.res.err.at = <<pcall.vx, pcall.vy>>
        /\ pcall.res.err.cause # ""

\* What the code does keep of C8: one error type, always with a cause.
C8_SingleErrorType ==
    (pcall.called /\ ~pcall.res.ok) =>
        /\ pcall.res.err.type = "FunctionParserError"
        /\ pcall.res.err.cause # ""

\* C9: when solve_exact_ode has returned no alarm is pending, whatever the
\* way out (return, exception, timeout), and the alarm never goes off after
\* the return.
C9_AlarmDisarmed ==
    /\ spc = "done" => ~armed
    /\ fired # "after"

C9_Witness ==
    /\ spc = "done" /\ has_alarm /\ handler = "handler"
    /\ pending = Raising("NotImplementedError")
    /\ fired = "never" /\ ~armed

\* C10: solve_exact_ode gives its caller None or a pair, never an exception;
\* the pair exactly when the alarm did not go off and dsolve returned at least
\* one solution, the first of them.
C10_NoneOrPair ==
    spc = "done" =>
        /\ sres.kind \in {"None", "pair"}
        /\ sres.kind = "pair" <=>
              (fired = "never" /\ sol.k \in {"eq", "list"} /\ Len(sol.sols) >= 1)
        /\ sres.kind = "pair" => sres.rhs = sol.sols[1]

C10_Witness ==
    /\ spc = "done" /\ fired = "inside" /\ sol.k = "list" /\ Len(sol.sols) = 2
    /\ sres.kind = "None"


\* C11: with the alarm available, a dsolve call that does not return is left
\* when the alarm goes off and solve_exact_ode then returns None; without the
\* alarm the call goes on to parse and solve all the same, no handler is
\* installed and no alarm is ever set.
C11_TimeoutInterrupts ==
    /\ (has_alarm /\ spc = "hung") ~>
            (spc = "done" /\ sres.kind = "None" /\ fired = "inside")
    /\ [][(~has_alarm /\ spc = "entry") => spc' = "parse"]_vars
    /\ []((~has_alarm /\ spc # "idle") =>
            (~armed /\ handler = "SIG_DFL" /\ fired = "never"))

C11_Witness ==
    /\ has_alarm /\ sol.k = "hang"
    /\ spc = "done" /\ sres.kind = "None" /\ fired = "inside"


\* C16: with h > 0 and x_end > x0 the loop of both integrators ends: every
\* pass moves x forward, so the passes are finitely many; every point but the
\* last lies below x_end - 1e-9; the last point of the returned list lies at
\* or above it, and less than h above it.
C16_LoopTerminates ==
    /\ [][(Valid /\ ipc = "loop" /\ points' # points) => curr_x' > curr_x]_vars
    /\ []((Valid /\ ipc \in {"loop", "returned"}) =>
            /\ \A i \in 1..(Len(points) - 1) : LoopCond(points[i][1], x_end)
            /\ ipc = "returned" =>
                  /\ ~LoopCond(points[Len(points)][1], x_end)
                  /\ LoopCond(points[Len(points)][1] - h, x_end))

\* C17: while an integrator is in its loop and when it has returned, the list
\* is not empty, starts with the seed, has strictly increasing x, and ends at
\* the current x; the list returned is that list.
C17_TrajectoryShape ==
    ipc \in {"loop", "returned"} =>
        /\ Len(points) >= 1
        /\ points[1] = (IF method = "EULER" THEN <<x0, y0>> ELSE <<x0, y0, y0>>)
        /\ \A i \in 1..(Len(points) - 1) : points[i][1] < points[i + 1][1]
        /\ points[Len(points)][1] = curr_x
        /\ ipc = "returned" => ret = points


\* x after k passes from x0, and the single-correction value after k passes
\* from (x0, y0): functions of f, x0, y0 and h alone.
RECURSIVE XAfter(_)
XAfter(k) == IF k = 0 THEN x0 ELSE FAdd(XAfter(k - 1), h)

RECURSIVE SingleAfter(_)
SingleAfter(k) ==
    IF k = 0 THEN y0 ELSE FirstCorrection(XAfter(k - 1), SingleAfter(k - 1))

\* C19: the (x, single-correction) columns of the list of
\* improved_euler_method are determined by f, x0, y0 and h, whatever the
\* number of corrector iterations; with one iteration the two y columns are
\* equal at every point.
C19_SingleColumnIndependent ==
    (method = "HEUN" /\ ipc \in {"loop", "returned"}) =>
        \A i \in 1..Len(points) :
            /\ points[i][1] = XAfter(i - 1)
            /\ points[i][2] = SingleAfter(i - 1)
            /\ corrector_iterations = 1 => points[i][3] = points[i][2]

C19_Witness ==
    /\ method = "HEUN" /\ ipc = "returned" /\ Len(ret) >= 4
    /\ corrector_iterations = MaxIter
    /\ ret[4][3] # ret[4][2]
    /\ ret[4][2] = SingleAfter(3) /\ ret[4][2] # ret[3][2]


\* C12: a call of the evaluator solve_exact_ode returned gives a float or nan,
\* never an exception: nan exactly where evaluating the closed form raises.
C12_EvaluatorNeverRaises ==
    ecall.called =>
        /\ ecall.res.t \in {"real", "nan"}
        /\ ecall.res.t = "nan" <=> RawEval(sres.rhs, ecall.vx, 0).t = "exc"
        /\ ecall.res.t = "real" => ecall.res = RawEval(sres.rhs, ecall.vx, 0)

C12_Witness ==
    /\ ecall.called /\ ecall.res = NaN
    /\ RawEval(sres.rhs, ecall.vx, 0).e = "OverflowError"


\* The trajectory stored in the record, under the key of the method.
Trajectory == IF rargs.method_type = "EULER" THEN results.euler_points ELSE results.heun_points

\* C13: run_simulation does not raise.  When the integrator raised, the run
\* returned with error set, no trajectory, no exact data, and solve_exact_ode
\* was not called; when the integrator returned, the record holds its whole
\* list and error is None, and without a pair from solve_exact_ode the record
\* has no exact data.
C13_RunNeverRaises ==
    /\ rpc # "raised"
    /\ (rpc = "try" /\ ipc = "raised") => spc = "idle"
    /\ rpc = "returned" =>
          /\ ipc = "raised" =>
                /\ results.error.set
                /\ ~results.euler_points.set /\ ~results.heun_points.set
                /\ ~results.exact_points.set /\ ~results.exact_func_str.set
                /\ spc = "idle"
          /\ ipc = "returned" =>
                /\ ~results.error.set
                /\ Trajectory = Some(ret)
                /\ spc = "done"
                /\ sres.kind # "pair" =>
                      ~results.exact_points.set /\ ~results.exact_func_str.set

C13_Witness ==
    /\ rpc = "returned" /\ ipc = "raised"
    /\ raised.type = "FunctionParserError" /\ Len(points) >= 2
    /\ results.error.set

\* C14: a returned record with exact samples has one sample per point of the
\* trajectory, the i-th being the exact evaluator at the x of the i-th point.
C14_ExactSamples ==
    (rpc = "returned" /\ results.exact_points.set) =>
        /\ Trajectory = Some(ret)
        /\ Len(results.exact_points.v) = Len(ret)
        /\ \A i \in 1..Len(ret) :
              results.exact_points.v[i] = SafeRealY(sres.rhs, ret[i][1])

C14_Witness ==
    /\ rpc = "returned" /\ results.exact_points.set
    /\ Len(results.exact_points.v) >= 3
    /\ results.exact_points.v[1] = NaN
    /\ results.exact_points.v[2].t = "real"
    /\ results.exact_points.v[3] # results.exact_points.v[2]

\* C18: within a run solve_exact_ode is entered only after the integrator has
\* returned and its list is stored, with the run's func_str, x0 and y0, the
\* ones the integrator was given; it is entered at most once; the integrator
\* runs before it; the samples are taken after it is done, without another
\* call of it, and the run returns with them.
C18_StageOrder ==
    /\ [][(spc = "idle" /\ spc' # "idle") =>
            /\ rpc = "exact" /\ ipc = "returned"
            /\ Trajectory = Some(ret)
            /\ ~results.exact_points.set
            /\ stext' = rargs.func_str
            /\ sx0' = rargs.x0 /\ sy0' = rargs.y0
            /\ sx0' = x0 /\ sy0' = y0]_vars
    /\ [][spc # "idle" => spc' # "idle"]_vars
    /\ [][ipc' # ipc => (rpc = "try" /\ spc = "idle")]_vars
    /\ [][results'.exact_points # results.exact_points =>
            (spc = "done" /\ UNCHANGED exactVars /\ rpc' = "returned")]_vars

C18_Witness ==
    /\ rpc = "returned" /\ results.exact_points.set
    /\ rargs.method_type = "HEUN" /\ has_alarm
    /\ Len(ret) >= 2 /\ sx0 = x0 /\ sy0 = y0 /\ x0 # 0 /\ y0 # 0

\* C20: in a returned record at most one of euler_points and heun_points is
\* set; exact_points is set exactly when exact_func_str is, and only with a
\* trajectory; with error set the four are None.
C20_RecordShape ==
    rpc = "returned" =>
        /\ ~(results.euler_points.set /\ results.heun_points.set)
        /\ results.exact_points.set <=> results.exact_func_str.set
        /\ results.exact_points.set =>
              (results.euler_points.set \/ results.heun_points.set)
        /\ results.error.set =>
              /\ ~results.euler_points.set /\ ~results.heun_points.set
              /\ ~results.exact_points.set /\ ~results.exact_func_str.set

C20_Witness ==
    /\ rpc = "returned" /\ results.heun_points.set /\ ~results.euler_points.set
    /\ results.exact_points.set /\ results.exact_func_str.set
    /\ ~results.error.set


\* What solve_exact_ode gives when it runs alone in the main thread, dsolve
\* doing o and no alarm going off.
AloneResult(text, o) ==
    IF ~Sympify(text, ExactLocals).ok \/ o.k = "raise" \/ Len(o.sols) = 0
    THEN [kind |-> "None", exc |-> "", rhs |-> NoExpr]
    ELSE [kind |-> "pair", exc |-> "", rhs |-> o.sols[1]]

InFlight == {"parse", "solve", "hung", "compile"}

\* C15: of two concurrent calls each gives what it gives alone (unless its own
\* alarm went off), and each has the alarm pending and the handler installed
\* while its solve is in flight on a platform with the alarm.
C15_NoInterference ==
    /\ (spc = "done" /\ fired = "never") => sres = AloneResult(stext, sol)
    /\ worker.pc = "done" => worker.res = AloneResult(worker.text, worker.sol)
    /\ (has_alarm /\ spc \in InFlight) => (armed /\ handler = "handler")
    /\ (has_alarm /\ worker.pc \in InFlight) => (armed /\ handler = "handler")

\* The first three parts of C15: the main-thread call is not disturbed.
C15_MainUndisturbed ==
    /\ (spc = "done" /\ fired = "never") => sres = AloneResult(stext, sol)
    /\ (has_alarm /\ spc \in InFlight) => (armed /\ handler = "handler")
    /\ (has_alarm /\ worker.pc \in InFlight) => (armed /\ handler = "handler")


\* C21: a run whose method_type is neither 'EULER' nor 'HEUN' calls no
\* integrator and no solve_exact_ode, and returns a record in which every
\* field but method is None, error included.
C21_UnsupportedMethod ==
    (rpc # "idle" /\ rargs.method_type \notin {"EULER", "HEUN"}) =>
        /\ ipc = "idle" /\ ncalls = 0 /\ points = <<>>
        /\ spc = "idle"
        /\ rpc # "raised"
        /\ rpc = "returned" =>
              /\ results.method = rargs.method_type
              /\ ~results.euler_points.set /\ ~results.heun_points.set
              /\ ~results.exact_points.set /\ ~results.exact_func_str.set
              /\ ~results.error.set

C21_Witness ==
    /\ rpc = "returned" /\ rargs.method_type = "RK4"
    /\ results.method = "RK4" /\ ~results.error.set
    /\ rargs.h > 0 /\ rargs.tf > rargs.x0

====
